---- MODULE Spec2Model ----
(***************************************************************************)
(* rcpp_get_composition_vector2 (src/src/get_composition_vector2.cpp):     *)
(* the composition vector of a numeric vector, computed by Rcpp's sugar    *)
(* function table().  The model follows one R session: the caller holds a  *)
(* vector on R's heap, calls the exported function, keeps the results and  *)
(* may reorder or change its vector between calls.                         *)
(*                                                                         *)
(* A double is a record: cls is "num" for an ordinary number (val holds    *)
(* it), "NA" for NA_real_ and "NaN" for any other NaN.  A vector is a      *)
(* record (type, data, times, names): data[i] stands for times[i]          *)
(* consecutive elements, as in R's rep(data, times), so that inputs as     *)
(* long as a 32-bit count allows can be written down; the plain inputs     *)
(* have every times[i] = 1.                                                *)
(***************************************************************************)
EXTENDS Integers, Sequences, FiniteSets, TLC

\* Bounds of the model.
MaxLen == 6
MaxRuns == 3
MaxSessionLen == 3
MaxCalls == 3

\* The largest value of a C++ int, the element type of Rcpp::IntegerVector.
INT_MAX == 2147483647

VARIABLES
    heap,       \* R's heap: a sequence of vectors, an address is an index
    arg,        \* address of the caller's vector, the argument of every call
    ret,        \* address of the value the last call returned, 0 when none
    pc,         \* "ready": a call is due; "done": it returned; "error": it raised
    calls,      \* number of calls made so far
    firstCall   \* history: <<>>, or <<r>> where r records the first call that
                \* returned: its parameter v, the address and the value of its
                \* result, and how many later calls had another parameter

vars == <<heap, arg, ret, pc, calls, firstCall>>

---------------------------------------------------------------------------
(* Values *)

Num(n) == [cls |-> "num", val |-> n]
NA_REAL == [cls |-> "NA", val |-> 0]
R_NaN == [cls |-> "NaN", val |-> 0]
NA_INTEGER == -INT_MAX - 1

Rcpp_IsNA(d) == d.cls = "NA"
Rcpp_IsNaN(d) == d.cls = "NaN"

SEXP(type, data, times, names) ==
    [type |-> type, data |-> data, times |-> times, names |-> names]

Ones(n) == [i \in 1..n |-> 1]

\* Sequences over S of length at most n.
SeqUpTo(S, n) == UNION {[1..k -> S] : k \in 0..n}

---------------------------------------------------------------------------
(* Rcpp::table(v), sugar/functions/table.h as called at line 7:            *)
(* a std::map<double, int, NAComparator<double>> filled by one             *)
(* CountInserter per element, then read in key order by a Grabber.         *)

\* NAComparator with the numbers compared the wrong way round.
NAComparator_descending(left, right) ==
    LET leftNaN == left.cls # "num"
        rightNaN == right.cls # "num"
    IN  IF Rcpp_IsNaN(right) /\ Rcpp_IsNA(left) THEN TRUE
        ELSE IF leftNaN # rightNaN THEN (~leftNaN /\ rightNaN)
        ELSE left.cls = "num" /\ right.cls = "num" /\ left.val > right.val

\* internal::NAComparator<double>, the order of the keys: numbers ascend,
\* then NA, then NaN; two NA are equivalent keys, and two NaN.
NAComparator(left, right) ==
    LET leftNaN == left.cls # "num"      \* left != left
        rightNaN == right.cls # "num"    \* right != right
    IN  IF Rcpp_IsNaN(right) /\ Rcpp_IsNA(left) THEN TRUE
        ELSE IF leftNaN # rightNaN THEN (~leftNaN /\ rightNaN)
        ELSE left.cls = "num" /\ right.cls = "num" /\ left.val < right.val

\* The count kept in 16 bits.
IntAdd_short(c, n) == (((c % 65536) + (n % 65536) + 32768) % 65536) - 32768

\* int + int for c, n >= 0: the sum when an int holds it, else the sum less
\* 2^32 (two's complement), computed without leaving 32 bits.
IntAdd(c, n) ==
    IF c > INT_MAX - n THEN (c - INT_MAX - 1) + (n - INT_MAX - 1) ELSE c + n

\* std::map::lower_bound: the first entry at or after position i whose key
\* is not less than k; Len(m) + 1 when there is none.
RECURSIVE lower_bound(_, _, _)
lower_bound(m, k, i) ==
    IF i > Len(m) THEN i
    ELSE IF NAComparator(m[i].first, k) THEN lower_bound(m, k, i + 1)
    ELSE i

InsertAt(m, i, e) == SubSeq(m, 1, i - 1) \o <<e>> \o SubSeq(m, i, Len(m))

\* hash[value] = 1 in place of hash[value]++.
CountInserter_assign(hash, value, n) ==
    LET i == lower_bound(hash, value, 1)
    IN  IF i <= Len(hash) /\ ~NAComparator(value, hash[i].first)
        THEN [hash EXCEPT ![i].second = IntAdd(0, n)]
        ELSE InsertAt(hash, i, [first |-> value, second |-> IntAdd(0, n)])

\* An entry is inserted for every element, equivalent key or not.
CountInserter_noFind(hash, value, n) ==
    LET i == lower_bound(hash, value, 1)
    IN  InsertAt(hash, i, [first |-> value, second |-> IntAdd(0, n)])

\* The element that creates an entry is not counted.
CountInserter_zeroNew(hash, value, n) ==
    LET i == lower_bound(hash, value, 1)
    IN  IF i <= Len(hash) /\ ~NAComparator(value, hash[i].first)
        THEN [hash EXCEPT ![i].second = IntAdd(@, n)]
        ELSE InsertAt(hash, i, [first |-> value, second |-> 0])

\* The entries are kept in the order of first appearance.
CountInserter_unsorted(hash, value, n) ==
    LET S == {j \in 1..Len(hash) : hash[j].first = value}
    IN  IF S # {}
        THEN [hash EXCEPT ![CHOOSE j \in S : TRUE].second = IntAdd(@, n)]
        ELSE Append(hash, [first |-> value, second |-> IntAdd(0, n)])

\* CountInserter::operator(): hash[value]++, applied to n consecutive
\* elements equal to value.  operator[] finds the entry whose key is
\* equivalent to value or inserts one with count 0 at its sorted place.
CountInserter(hash, value, n) ==
    LET i == lower_bound(hash, value, 1)
    IN  IF i <= Len(hash) /\ ~NAComparator(value, hash[i].first)
        THEN [hash EXCEPT ![i].second = IntAdd(@, n)]
        ELSE InsertAt(hash, i, [first |-> value, second |-> IntAdd(0, n)])

\* std::for_each(table.begin(), table.end(), Inserter(hash)) from element i.
RECURSIVE for_each(_, _, _)
for_each(v, i, hash) ==
    IF i > Len(v.data) THEN hash
    ELSE for_each(v, i + 1, CountInserter(hash, v.data[i], v.times[i]))

\* The map is a static one, filled by the first call and never cleared.
Table_static(v) ==
    for_each(v, 1, IF Len(firstCall) = 0 THEN <<>>
                   ELSE for_each(firstCall[1].v, 1, <<>>))

\* Table<REALSXP, NumericVector>::Table: the map starts empty on every call.
Table(v) == for_each(v, 1, <<>>)

\* internal::r_coerce<REALSXP, STRSXP>: the name of a key.
r_coerce(d) ==
    IF Rcpp_IsNA(d) THEN "NA" ELSE IF Rcpp_IsNaN(d) THEN "NaN" ELSE ToString(d.val)

\* The result is given one element, 0, when the map is empty.
Grabber_atLeastOne(hash) ==
    IF Len(hash) = 0 THEN SEXP("INTSXP", <<0>>, <<1>>, <<"">>)
    ELSE SEXP("INTSXP", [i \in 1..Len(hash) |-> hash[i].second], Ones(Len(hash)),
              [i \in 1..Len(hash) |-> r_coerce(hash[i].first)])

\* Table::operator IntegerVector: Grabber copies the counts, and the keys as
\* names, in the order of the map.
Grabber(hash) ==
    SEXP("INTSXP", [i \in 1..Len(hash) |-> hash[i].second], Ones(Len(hash)),
         [i \in 1..Len(hash) |-> r_coerce(hash[i].first)])

table(v) == Grabber(Table(v))

\* Lines 5-9: IntegerVector B = table(v); return B;
rcpp_get_composition_vector2(v) == table(v)

---------------------------------------------------------------------------
(* The exported entry point (line 4, [[Rcpp::export]]): the generated      *)
(* wrapper converts the caller's SEXP to the parameter                    *)
(* const NumericVector & v, calls the function and wraps its value; an     *)
(* exception leaves through END_RCPP as an R error.                        *)

\* What is no numeric vector is taken for an empty one.
input_parameter_lenient(s) ==
    IF s.type = "REALSXP" THEN [ok |-> TRUE, copy |-> FALSE, v |-> s]
    ELSE IF s.type = "INTSXP"
    THEN [ok |-> TRUE, copy |-> TRUE,
          v |-> SEXP("REALSXP",
                     [i \in 1..Len(s.data) |->
                        IF s.data[i] = NA_INTEGER THEN NA_REAL ELSE Num(s.data[i])],
                     s.times, <<>>)]
    ELSE [ok |-> TRUE, copy |-> TRUE, v |-> SEXP("REALSXP", <<>>, <<>>, <<>>)]

\* Rcpp::as<NumericVector>: a REALSXP is used in place, an INTSXP is
\* coerced into a new REALSXP, anything else is not compatible.
input_parameter(s) ==
    IF s.type = "REALSXP" THEN [ok |-> TRUE, copy |-> FALSE, v |-> s]
    ELSE IF s.type = "INTSXP"
    THEN [ok |-> TRUE, copy |-> TRUE,
          v |-> SEXP("REALSXP",
                     [i \in 1..Len(s.data) |->
                        IF s.data[i] = NA_INTEGER THEN NA_REAL ELSE Num(s.data[i])],
                     s.times, <<>>)]
    ELSE [ok |-> FALSE, copy |-> FALSE, v |-> s]

\* The result is written over the vector the last call returned.
Rf_allocVector_static(h, obj) ==
    IF ret # 0 THEN [heap |-> [h EXCEPT ![ret] = obj], addr |-> ret]
    ELSE [heap |-> Append(h, obj), addr |-> Len(h) + 1]

\* Rf_allocVector behind IntegerVector result = no_init(n): a new vector at
\* an address no vector has.
Rf_allocVector(h, obj) == [heap |-> Append(h, obj), addr |-> Len(h) + 1]

\* One call of rcpp_get_composition_vector2 from R, start to return.
Call ==
    /\ pc = "ready"
    /\ calls < MaxCalls
    /\ LET in == input_parameter(heap[arg])
           h1 == IF in.copy THEN Append(heap, in.v) ELSE heap
           B == Rf_allocVector(h1, rcpp_get_composition_vector2(in.v))
       IN  IF ~in.ok
           THEN /\ pc' = "error"
                /\ ret' = 0
                /\ UNCHANGED <<heap, firstCall>>
           ELSE /\ pc' = "done"
                /\ heap' = B.heap
                /\ ret' = B.addr
                /\ firstCall' =
                      IF Len(firstCall) = 0
                      THEN <<[v |-> in.v, ret |-> B.addr,
                              value |-> B.heap[B.addr], others |-> 0]>>
                      ELSE IF in.v = firstCall[1].v THEN firstCall
                      ELSE <<[firstCall[1] EXCEPT !.others = @ + 1]>>
    /\ calls' = calls + 1
    /\ UNCHANGED arg

---------------------------------------------------------------------------
(* The caller (the embedded R script, lines 11-23): it builds a vector,    *)
(* calls the function, and the benchmark calls it again and again.         *)

\* The same vector is passed again (bench::mark, iterations = 100).
Repeat ==
    /\ pc = "done"
    /\ calls < MaxCalls
    /\ pc' = "ready"
    /\ UNCHANGED <<heap, arg, ret, calls, firstCall>>

\* The caller reorders its vector before the next call.
Permute ==
    /\ pc = "done"
    /\ calls < MaxCalls
    /\ \E p \in Permutations(1..Len(heap[arg].data)) :
          heap' = [heap EXCEPT ![arg].data = [i \in 1..Len(@) |-> @[p[i]]],
                               ![arg].times = [i \in 1..Len(@) |-> @[p[i]]]]
    /\ pc' = "ready"
    /\ UNCHANGED <<arg, ret, calls, firstCall>>

Doubles == {Num(1), Num(2), Num(3), NA_REAL, R_NaN}
Integers32 == {1, 2, NA_INTEGER}
RunValues == {Num(1), Num(2), R_NaN}
RunLengths == {1, 2, 8, INT_MAX - 2, INT_MAX - 1, INT_MAX}
SessionValues == {Num(1), Num(2), R_NaN}

\* The caller overwrites one element before the next call.
Assign ==
    /\ pc = "done"
    /\ calls < MaxCalls
    /\ \E i \in 1..Len(heap[arg].data),
          d \in IF heap[arg].type = "INTSXP" THEN Integers32 ELSE SessionValues :
          /\ heap[arg].data[i] # d
          /\ heap' = [heap EXCEPT ![arg].data[i] = d]
    /\ pc' = "ready"
    /\ UNCHANGED <<arg, ret, calls, firstCall>>

---------------------------------------------------------------------------
(* Inputs *)

\* The sum of times from position i stays within budget.
RECURSIVE Fits(_, _, _)
Fits(times, i, budget) ==
    \/ i > Len(times)
    \/ /\ times[i] <= budget
       /\ Fits(times, i + 1, budget - times[i])

RealArgs(S, n) == {SEXP("REALSXP", d, Ones(Len(d)), <<>>) : d \in SeqUpTo(S, n)}

\* Long inputs, as runs of equal elements; no longer than INT_MAX elements.
RunArgs ==
    {SEXP("REALSXP", [i \in 1..Len(r) |-> r[i][1]], [i \in 1..Len(r) |-> r[i][2]], <<>>) :
        r \in {q \in SeqUpTo(RunValues \X RunLengths, MaxRuns) :
                  Fits([i \in 1..Len(q) |-> q[i][2]], 1, INT_MAX)}}

IntArgs(n) == {SEXP("INTSXP", d, Ones(Len(d)), <<>>) : d \in SeqUpTo(Integers32, n)}

\* What is no numeric vector: a character vector, NULL.
BadArgs == {SEXP("STRSXP", <<"a", "b">>, <<1, 1>>, <<>>), SEXP("NILSXP", <<>>, <<>>, <<>>)}

Start(a) ==
    /\ heap = <<a>>
    /\ arg = 1
    /\ ret = 0
    /\ pc = "ready"
    /\ calls = 0
    /\ firstCall = <<>>

Init ==
    \/ \E a \in RealArgs(Doubles, MaxLen) \cup RunArgs : Start(a)
    \/ \E a \in IntArgs(MaxLen) : Start(a)
    \/ \E a \in BadArgs : Start(a)

Next == Call

Spec == Init /\ [][Next]_vars

InitSession ==
    \/ \E a \in RealArgs(SessionValues, MaxSessionLen) : Start(a)
    \/ \E a \in IntArgs(MaxSessionLen) : Start(a)
    \/ \E a \in BadArgs : Start(a)

NextSession == Call \/ Repeat \/ Permute \/ Assign

SpecSession == InitSession /\ [][NextSession]_vars

---------------------------------------------------------------------------
(* What the claims speak of, stated on the caller's side.                  *)

\* The numeric sequence the caller passed: the parameter v of the call.
Input == input_parameter(heap[arg]).v

\* The counts the last call returned.
Output == heap[ret].data

WellFormed(s) == s.type \in {"REALSXP", "INTSXP"}

RECURSIVE SumSeq(_, _)
SumSeq(s, i) == IF i > Len(s) THEN 0 ELSE s[i] + SumSeq(s, i + 1)

\* Number of elements of a vector, and of those that are the value d.  Two
\* numbers are the same value when they are equal; NA is the same value as
\* NA and NaN as NaN (R's identical()).
Length(a) == SumSeq(a.times, 1)
Occurrences(a, d) ==
    SumSeq([i \in 1..Len(a.data) |-> IF a.data[i] = d THEN a.times[i] ELSE 0], 1)
DistinctValues(a) == {a.data[i] : i \in 1..Len(a.data)}

\* Ascending order of values: numbers by size, then NA, then NaN.
Ascends(d, e) ==
    \/ d.cls = "num" /\ e.cls = "num" /\ d.val < e.val
    \/ d.cls = "num" /\ e.cls # "num"
    \/ d.cls = "NA" /\ e.cls = "NaN"

\* d is the Rank(a, d)-th smallest distinct value of a.
Rank(a, d) == 1 + Cardinality({e \in DistinctValues(a) : Ascends(e, d)})

IsPermutation(a, b) ==
    /\ Length(a) = Length(b)
    /\ \A d \in DistinctValues(a) \cup DistinctValues(b) :
          Occurrences(a, d) = Occurrences(b, d)

\* c(rep(1, 8), 2), the vector of the embedded R example (line 13).
Example == SEXP("REALSXP", <<Num(1), Num(2)>>, <<8, 1>>, <<>>)

C3_LengthIsDistinct ==
    pc = "done" => Len(Output) = Cardinality(DistinctValues(Input))

\* C3 witness: a call on five elements with two distinct values.
C3_Witness ==
    /\ pc = "done"
    /\ Len(Input.data) = 5
    /\ Cardinality(DistinctValues(Input)) = 2
    /\ Len(Output) = 2

\* C5: a call on an empty sequence returns, and returns the empty sequence.
C5_EmptyInEmptyOut ==
    (pc # "ready" /\ WellFormed(heap[arg]) /\ Len(heap[arg].data) = 0) =>
        (pc = "done" /\ ret # 0 /\ Output = <<>>)

\* C5 witness: a call on the empty double vector returned the empty result.
C5_Witness ==
    /\ pc = "done"
    /\ heap[arg].type = "REALSXP"
    /\ heap[arg].data = <<>>
    /\ Output = <<>>

\* C9: every count is at least 1, the result is no longer than the input and
\* is empty exactly when the input is, and one element gives [1].
C9_CountsPositive ==
    pc = "done" =>
        /\ \A i \in 1..Len(Output) : Output[i] >= 1
        /\ Len(Output) <= Length(Input)
        /\ (Len(Output) = 0) <=> (Length(Input) = 0)
        /\ Length(Input) = 1 => Output = <<1>>

\* C9 witness: a call on a single element returned [1].
C9_Witness ==
    /\ pc = "done"
    /\ Length(Input) = 1
    /\ Output = <<1>>

C8_InvalidInputRaises ==
    pc # "ready" =>
        IF WellFormed(heap[arg])
        THEN pc = "done" /\ ret # 0 /\ heap[ret].type = "INTSXP"
        ELSE pc = "error" /\ ret = 0 /\ heap = <<heap[arg]>>

\* C8 witness: the call on a character vector raised.
C8_Witness ==
    /\ pc = "error"
    /\ heap[arg].type = "STRSXP"
    /\ ret = 0

\* C4: a call on a permutation of the first call's input returns the same
\* sequence as the first call did.
C4_PermutationInvariant ==
    (pc = "done" /\ IsPermutation(Input, firstCall[1].v)) =>
        heap[ret] = firstCall[1].value

\* C4 witness: a later call on a reordered input with two distinct values.
C4_Witness ==
    /\ pc = "done"
    /\ calls >= 2
    /\ Input.data # firstCall[1].v.data
    /\ IsPermutation(Input, firstCall[1].v)
    /\ Len(Output) >= 2
    /\ heap[ret] = firstCall[1].value

\* C6: a call with the same input as the first call returns an equal
\* result, whatever calls were made in between.
C6_Deterministic ==
    (pc = "done" /\ Input = firstCall[1].v) => heap[ret] = firstCall[1].value

\* C6 witness: the third call repeats the first call's non-empty input after
\* a call with another input.
C6_Witness ==
    /\ pc = "done"
    /\ calls = 3
    /\ firstCall[1].others = 1
    /\ Input = firstCall[1].v
    /\ Len(Output) >= 1
    /\ ret # firstCall[1].ret

\* C7: a call leaves the caller's vector, and every vector that existed
\* before it, as it was, and returns a vector at an address that did not
\* exist before: none of the input, of an earlier result.
C7_InputKeptOutputFresh ==
    [][(pc = "ready" /\ pc' = "done") =>
          /\ arg' = arg
          /\ heap'[arg] = heap[arg]
          /\ \A a \in 1..Len(heap) : heap'[a] = heap[a]
          /\ ret' > Len(heap)
          /\ ret' # arg /\ ret' # ret]_vars

\* C7 witness: a second call returned while the first result is still held,
\* on an input that is not in ascending order.
C7_Witness ==
    /\ pc = "done"
    /\ calls >= 2
    /\ ret # firstCall[1].ret
    /\ ret # arg
    /\ heap[firstCall[1].ret] = firstCall[1].value
    /\ heap[arg].type = "REALSXP"
    /\ heap[arg].data = <<Num(2), Num(1)>>

====
